---- MODULE Spec2Model ----
(***************************************************************************)
(* SPD-Reader-Writer: the two revisions of SpdReaderWriterSettings.h.      *)
(*                                                                         *)
(* A settings file is a list of preprocessor lines.  A build includes one  *)
(* revision; the preprocessor reads the file line by line and enters each  *)
(* #define in its macro table (name -> replacement token list).  After the *)
(* file is read, the consuming program uses the constants: every use is a  *)
(* macro expansion, i.e. a textual substitution of the replacement list,   *)
(* followed by ordinary C expression evaluation.                           *)
(***************************************************************************)
EXTENDS Integers, Sequences, FiniteSets, TLC

(* Number of bit positions a generation tag may occupy (tags are 1 << k).  *)
NumBits == 6
(* Number of pin numbers, beside those the firmware header assigns as      *)
(* numbers, that a board's core may give an analog pin name.               *)
FreePins == 2

(***************************************************************************)
(* Tokens of a replacement list.                                           *)
(***************************************************************************)
Num(n) == [kind |-> "num", num |-> n, text |-> ""]
Id(s)  == [kind |-> "id",  num |-> 0, text |-> s]
Op(s)  == [kind |-> "op",  num |-> 0, text |-> s]

(* One line of a header: a #define, or a line the preprocessor passes over *)
(* (blank line, comment).                                                  *)
DefLine(n, b) == [kind |-> "define", name |-> n, body |-> b]
SkipLine      == [kind |-> "skip",   name |-> "", body |-> <<>>]

(***************************************************************************)
(* src/arduino/SpdReaderWriter/SpdReaderWriterSettings.h                   *)
(***************************************************************************)
Arduino_PORT      == DefLine("PORT",      <<Id("Serial")>>)
Arduino_BAUD_RATE == DefLine("BAUD_RATE", <<Num(115200)>>)
Arduino_HVSW      == DefLine("HVSW",      <<Num(6)>>)
Arduino_SA0SW     == DefLine("SA0SW",     <<Num(2)>>)
Arduino_SA1SW     == DefLine("SA1SW",     <<Num(3)>>)

Arduino_SA2SW     == DefLine("SA2SW",     <<Num(4)>>)

ArduinoSettings ==
  << Arduino_PORT, Arduino_BAUD_RATE, Arduino_HVSW,
     Arduino_SA0SW, Arduino_SA1SW, Arduino_SA2SW,
     SkipLine >>

(***************************************************************************)
(* src/firmware/SpdReaderWriterSettings.h                                  *)
(***************************************************************************)
Firmware_PORT      == DefLine("PORT",      <<Id("Serial")>>)

(* A revision left at another baud rate.                                   *)
Firmware_BAUD_RATE_Mismatch == DefLine("BAUD_RATE", <<Num(9600)>>)
Firmware_BAUD_RATE == DefLine("BAUD_RATE", <<Num(115200)>>)

(* Fast Mode left enabled.                                                 *)
Firmware_I2C_CLOCK_Fast == DefLine("I2C_CLOCK", <<Num(400000)>>)
Firmware_I2C_CLOCK == DefLine("I2C_CLOCK", <<Num(100000)>>)

Firmware_HV_SW     == DefLine("HV_SW",     <<Num(9)>>)
Firmware_HV_FB     == DefLine("HV_FB",     <<Num(6)>>)
Firmware_OFF_SW    == DefLine("OFF_SW",    <<Id("A0")>>)

(* SA1 wired to the pin of the offline-mode switch.                        *)
Firmware_SA1_SW_SamePin == DefLine("SA1_SW", <<Id("A0")>>)
(* SA1 line carrying the name another revision uses.                       *)
Firmware_SA1_SW_Renamed == DefLine("SA1_EN", <<Id("A1")>>)
Firmware_SA1_SW    == DefLine("SA1_SW",    <<Id("A1")>>)

(* Default support list lacking the newest generation.                     *)
Firmware_RAM_SUPPORT_NoDDR5 ==
  DefLine("RAM_SUPPORT",
          << Id("DDR2"), Op("|"), Id("DDR3"), Op("|"), Id("DDR4") >>)
Firmware_RAM_SUPPORT ==
  DefLine("RAM_SUPPORT",
          << Id("DDR2"), Op("|"), Id("DDR3"), Op("|"), Id("DDR4"),
             Op("|"), Id("DDR5") >>)

FirmwareSettings ==
  << SkipLine, SkipLine, SkipLine, SkipLine, SkipLine, SkipLine,
     SkipLine, SkipLine, SkipLine, SkipLine, SkipLine, SkipLine,
     SkipLine,
     SkipLine,
     Firmware_PORT, Firmware_BAUD_RATE, Firmware_I2C_CLOCK,
     SkipLine,
     SkipLine,
     Firmware_HV_SW, Firmware_HV_FB, Firmware_OFF_SW, Firmware_SA1_SW,
     SkipLine,
     SkipLine,
     Firmware_RAM_SUPPORT,
     SkipLine >>

Revisions == {"arduino", "firmware"}
Header(r) == IF r = "arduino" THEN ArduinoSettings ELSE FirmwareSettings

(***************************************************************************)
(* Generation tags.  The header names DDR2..DDR5 in RAM_SUPPORT and says   *)
(* SDRAM and DDR are supported besides them; their values are set outside  *)
(* the settings file, by the program that includes it, each a distinct     *)
(* single bit.                                                             *)
(***************************************************************************)
SupportTags == {"DDR2", "DDR3", "DDR4", "DDR5"}
DefaultTags == {"SDRAM", "DDR"}
Tags        == SupportTags \cup DefaultTags

RECURSIVE Pow2(_)
Pow2(k) == IF k = 0 THEN 1 ELSE 2 * Pow2(k - 1)

SingleBits == {Pow2(k) : k \in 0..(NumBits - 1)}
TagAssignments ==
  {f \in [Tags -> SingleBits] : \A a, b \in Tags : a # b => f[a] # f[b]}

(***************************************************************************)
(* Analog pin names.  The firmware header assigns A0 and A1; the pin       *)
(* number each name stands for is set by the core of the board the build   *)
(* targets, outside the settings file.  The two names are different pins.  *)
(***************************************************************************)
AnalogPins == {"A0", "A1"}

(* A core's number for A0 or A1 is either one the header already assigns   *)
(* as a number (HV_SW, HV_FB) or a number no constant of the header has:   *)
(* those from the A0 of the ATmega328 boards (Uno, Nano) upwards.          *)
NumberedPins == {Firmware_HV_SW.body[1].num, Firmware_HV_FB.body[1].num}
FirstAnalogPin == 14
PinNumbers ==
  NumberedPins \cup (FirstAnalogPin..(FirstAnalogPin + FreePins - 1))
PinAssignments ==
  {f \in [AnalogPins -> PinNumbers] : f["A0"] # f["A1"]}

(***************************************************************************)
(* C integer operators | and & on non-negative values.                     *)
(***************************************************************************)
RECURSIVE BitOr(_, _)
BitOr(a, b) ==
  IF a = 0 THEN b
  ELSE IF b = 0 THEN a
  ELSE (IF a % 2 = 1 \/ b % 2 = 1 THEN 1 ELSE 0)
       + 2 * BitOr(a \div 2, b \div 2)

RECURSIVE BitAnd(_, _)
BitAnd(a, b) ==
  IF a = 0 \/ b = 0 THEN 0
  ELSE (IF a % 2 = 1 /\ b % 2 = 1 THEN 1 ELSE 0)
       + 2 * BitAnd(a \div 2, b \div 2)

(***************************************************************************)
(* Macro expansion: each identifier that names a macro is replaced by the  *)
(* macro's replacement list, token for token (no parentheses are added).   *)
(***************************************************************************)
RECURSIVE Expand(_, _)
Expand(toks, table) ==
  IF toks = <<>> THEN <<>>
  ELSE LET t == Head(toks) IN
       (IF t.kind = "id" /\ t.text \in DOMAIN table
          THEN Expand(table[t.text], table)
          ELSE <<t>>)
       \o Expand(Tail(toks), table)

(***************************************************************************)
(* Evaluation of an expanded expression under the C grammar:               *)
(*   inclusive-OR-expression: AND-expression { | AND-expression }          *)
(*   AND-expression:          primary { & primary }                        *)
(* so & binds tighter than |.                                              *)
(***************************************************************************)
IndexOfOp(toks, o) ==
  LET at == {i \in 1..Len(toks) : toks[i] = Op(o)}
  IN IF at = {} THEN 0 ELSE CHOOSE i \in at : \A j \in at : i <= j

EvalPrimary(t, env) ==
  IF t.kind = "num" THEN t.num
  ELSE IF t.text \in DOMAIN env THEN env[t.text] ELSE 0

RECURSIVE EvalAnd(_, _)
EvalAnd(toks, env) ==
  LET i == IndexOfOp(toks, "&") IN
  IF i = 0 THEN EvalPrimary(toks[1], env)
  ELSE BitAnd(EvalPrimary(toks[1], env),
              EvalAnd(SubSeq(toks, i + 1, Len(toks)), env))

RECURSIVE EvalOr(_, _)
EvalOr(toks, env) ==
  LET i == IndexOfOp(toks, "|") IN
  IF i = 0 THEN EvalAnd(toks, env)
  ELSE BitOr(EvalAnd(SubSeq(toks, 1, i - 1), env),
             EvalOr(SubSeq(toks, i + 1, Len(toks)), env))

(***************************************************************************)
(* State.                                                                  *)
(***************************************************************************)
VARIABLES
  rev,        \* the settings revision this build includes
  tag,        \* generation tag -> its single-bit value (empty: not yet set)
  analog,     \* analog pin name -> the pin number the board's core gives it
  pc,         \* next line of the header to be read
  macros,     \* macro table: name -> replacement list
  probe,      \* generation last tested against RAM_SUPPORT ("none": none)
  result,     \* value of that test
  lastRead,   \* constant last used by the program ("none": none)
  lastValue   \* its expansion

vars == <<rev, tag, analog, pc, macros, probe, result, lastRead, lastValue>>

NoMacros == [n \in {} |-> <<>>]
NoTags   == [t \in {} |-> 0]

Init ==
  /\ rev \in Revisions
  /\ tag = NoTags
  /\ analog \in PinAssignments
  /\ pc = 1
  /\ macros = NoMacros
  /\ probe = "none"
  /\ result = 0
  /\ lastRead = "none"
  /\ lastValue = <<>>

Done == pc > Len(Header(rev))

(* The preprocessor reads a #define line: the name now stands for the body.*)
Define ==
  /\ ~Done
  /\ Header(rev)[pc].kind = "define"
  /\ macros' = (Header(rev)[pc].name :> Header(rev)[pc].body) @@ macros
  /\ pc' = pc + 1
  /\ UNCHANGED <<rev, tag, analog, probe, result, lastRead, lastValue>>

(* The preprocessor passes over a blank or comment line.                   *)
Skip ==
  /\ ~Done
  /\ Header(rev)[pc].kind = "skip"
  /\ pc' = pc + 1
  /\ UNCHANGED <<rev, tag, analog, macros, probe, result, lastRead, lastValue>>

(* The including program gives the generation tags their values, after    *)
(* the settings file is read and before any constant is used.              *)
TagsDefined == DOMAIN tag = Tags

DefineTags ==
  /\ Done /\ ~TagsDefined
  /\ tag' \in TagAssignments
  /\ UNCHANGED <<rev, analog, pc, macros, probe, result, lastRead, lastValue>>

(* Nothing has been evaluated yet in this run.                             *)
Unused == probe = "none" /\ lastRead = "none"

(* The program uses a constant: the name is replaced by its expansion.     *)
ReadSetting(n) ==
  /\ Done /\ TagsDefined /\ Unused
  /\ n \in DOMAIN macros
  /\ lastRead' = n
  /\ lastValue' = Expand(<<Id(n)>>, macros)
  /\ UNCHANGED <<rev, tag, analog, pc, macros, probe, result>>

(* The program tests one generation: the C expression  RAM_SUPPORT & G.    *)
TestSupport(g) ==
  /\ Done /\ TagsDefined /\ Unused
  /\ "RAM_SUPPORT" \in DOMAIN macros
  /\ probe' = g
  /\ result' = EvalOr(Expand(<<Id("RAM_SUPPORT"), Op("&"), Id(g)>>, macros), tag)
  /\ UNCHANGED <<rev, tag, analog, pc, macros, lastRead, lastValue>>

MacroNames == {"PORT", "BAUD_RATE", "I2C_CLOCK", "HVSW", "SA0SW", "SA1SW",
               "SA2SW", "HV_SW", "HV_FB", "OFF_SW", "SA1_SW", "RAM_SUPPORT"}

Next ==
  \/ Define
  \/ Skip
  \/ DefineTags
  \/ \E n \in MacroNames : ReadSetting(n)
  \/ \E g \in Tags : TestSupport(g)

Spec == Init /\ [][Next]_vars

(***************************************************************************)
(* Properties.                                                             *)
(***************************************************************************)

(* C1: both revisions give the same communication constants: once the     *)
(* included header is read, whichever revision it is, PORT expands to      *)
(* Serial and BAUD_RATE expands to 115200, and a program that uses         *)
(* BAUD_RATE gets 115200.                                                  *)
C1_CommConstantsAlike ==
  /\ Done => /\ {"PORT", "BAUD_RATE"} \subseteq DOMAIN macros
             /\ macros["PORT"] = <<Id("Serial")>>
             /\ macros["BAUD_RATE"] = <<Num(115200)>>
  /\ lastRead = "BAUD_RATE" => lastValue = <<Num(115200)>>
  /\ lastRead = "PORT" => lastValue = <<Id("Serial")>>

C1_Witness ==
  /\ Done /\ rev = "firmware"
  /\ lastRead = "BAUD_RATE" /\ lastValue = <<Num(115200)>>

(* C2: in the firmware revision, for every assignment of distinct single   *)
(* bits to the tags, the value of RAM_SUPPORT has exactly the bits of      *)
(* DDR2, DDR3, DDR4 and DDR5 set, and no other bit.                        *)
C2_RamSupportIsTheFourTags ==
  (rev = "firmware" /\ "RAM_SUPPORT" \in DOMAIN macros /\ TagsDefined) =>
    LET v    == EvalOr(Expand(<<Id("RAM_SUPPORT")>>, macros), tag)
        bits == {b \in SingleBits : (v \div b) % 2 = 1}
    IN
    /\ v < Pow2(NumBits)
    /\ bits = {tag[t] : t \in SupportTags}
    /\ Cardinality(bits) = 4
    /\ \A t \in SupportTags : BitAnd(v, tag[t]) = tag[t]
    /\ \A t \in DefaultTags : BitAnd(v, tag[t]) = 0

C2_Witness ==
  /\ rev = "firmware" /\ Done
  /\ lastRead = "RAM_SUPPORT"
  /\ tag["SDRAM"] = 1 /\ tag["DDR"] = 2

(* C3: in the firmware revision I2C_CLOCK is 100000 (standard mode), not   *)
(* the Fast Mode value 400000.                                             *)
C3_I2cClockStandardMode ==
  /\ (rev = "firmware" /\ Done) => "I2C_CLOCK" \in DOMAIN macros
  /\ "I2C_CLOCK" \in DOMAIN macros =>
       /\ macros["I2C_CLOCK"] = <<Num(100000)>>
       /\ macros["I2C_CLOCK"] # <<Num(400000)>>
  /\ lastRead = "I2C_CLOCK" => lastValue = <<Num(100000)>>

C3_Witness ==
  /\ rev = "firmware"
  /\ lastRead = "I2C_CLOCK" /\ lastValue = <<Num(100000)>>

(* C4: once the included header is read, whichever revision it is, a port, *)
(* a baud rate, a high-voltage switch pin (HVSW / HV_SW) and an SA1 select *)
(* pin (SA1SW / SA1_SW) are defined.                                       *)
C4_CommonConstantsDefined ==
  Done =>
    {"PORT", "BAUD_RATE",
     IF rev = "arduino" THEN "HVSW" ELSE "HV_SW",
     IF rev = "arduino" THEN "SA1SW" ELSE "SA1_SW"} \subseteq DOMAIN macros

C4_Witness ==
  /\ Done /\ rev = "arduino"
  /\ lastRead = "SA1SW"
  /\ probe = "none"

C7_TestIsSetMembership ==
  probe # "none" =>
    result = BitAnd(BitOr(BitOr(BitOr(tag["DDR2"], tag["DDR3"]), tag["DDR4"]),
                          tag["DDR5"]),
                    tag[probe])

====
